---- MODULE Spec2Model ----
(***************************************************************************)
(* Model of src/flash_attention_jax/rabe_attention.py: memory-efficient    *)
(* attention (Rabe & Staats) in two pipelines, rabe_attention and          *)
(* rabe_cosine_sim_attention.  The module's einsum (line 10) is read as    *)
(* functools.partial(jnp.einsum, precision = HIGHEST): the bare name       *)
(* `partial` is not imported, and the functions are modelled as they run   *)
(* once that name resolves.                                                *)
(*                                                                         *)
(* Arithmetic.  Array entries are exact rationals <<num, den>>, den > 0,   *)
(* in lowest terms, so that equal numbers are equal values.  Two library   *)
(* primitives have irrational results and are modelled on a grid:          *)
(*   jnp.sqrt / jnp.linalg.norm : rounded down to a multiple of 1/SqrtRes  *)
(*       (exact on perfect squares, in particular on head_dim 1 and 4);    *)
(*   jnp.exp : the exponential of base 4 on multiples of 1/2 (4^(m/2) =    *)
(*       2^m), interpolated linearly in between.  It is positive, strictly *)
(*       increasing, Exp(0) = 1 and Exp(a+b) = Exp(a)*Exp(b) on the grid,  *)
(*       and every exponent of pipeline A lies on the grid.                *)
(* Q and K entries of the cosine-similarity pipeline are read in units of  *)
(* 1e-6, the unit in which l2norm's eps is 1 (normalisation is otherwise   *)
(* scale-free), so that eps takes part in the arithmetic exactly.          *)
(***************************************************************************)
EXTENDS Integers, Sequences, FiniteSets

VARIABLES
    args,        \* the call: [fn, q, k, v, q_chunk_size, k_chunk_size]
    pc,          \* "call", "scan", "reshape", "done", "error"
    q,           \* q as bound inside the entry point (l2norm-ed in pipeline B)
    k,           \* k as bound inside the entry point (l2norm-ed in pipeline B)
    chunk_idx,   \* carry of jax.lax.scan in the entry point
    res,         \* stacked scan outputs: one query-tile result per iteration
    tiles,       \* per key tile of the last query tile: slices and statistics
    fold,        \* combination step of the last query tile
    q_tile,      \* the last query tile: [start, rows] of the slice of q
    out          \* the returned array once pc = "done"

vars == <<args, pc, q, k, chunk_idx, res, tiles, fold, q_tile, out>>

----------------------------------------------------------------------------
(* Bounds of the model *)

MaxQLen == 2
MaxKLen == 3
MaxShapeLen == 3
MaxChunk == 3
SqrtRes == 4

Min(a, b) == IF a <= b THEN a ELSE b
Max(a, b) == IF a >= b THEN a ELSE b

----------------------------------------------------------------------------
(* Exact rational arithmetic *)

Abs(x) == IF x < 0 THEN -x ELSE x

RECURSIVE GCD(_, _)
GCD(a, b) == IF b = 0 THEN a ELSE GCD(b, a % b)

Rat(n, d) ==
    LET s == IF d < 0 THEN -1 ELSE 1
        g == GCD(Abs(n), Abs(d))
    IN  <<(s * n) \div g, (s * d) \div g>>

FromInt(n) == <<n, 1>>
Zero == <<0, 1>>
One == <<1, 1>>

RAdd(x, y) == Rat(x[1] * y[2] + y[1] * x[2], x[2] * y[2])
RSub(x, y) == Rat(x[1] * y[2] - y[1] * x[2], x[2] * y[2])
RMul(x, y) == Rat(x[1] * y[1], x[2] * y[2])
RDiv(x, y) == Rat(x[1] * y[2], x[2] * y[1])
RLe(x, y) == x[1] * y[2] <= y[1] * x[2]
RMax(x, y) == IF RLe(x, y) THEN y ELSE x
RMin(x, y) == IF RLe(x, y) THEN x ELSE y

RECURSIVE RSum(_)
RSum(s) == IF s = <<>> THEN Zero ELSE RAdd(s[1], RSum(Tail(s)))

RECURSIVE RMaxSeq(_)
RMaxSeq(s) == IF Len(s) = 1 THEN s[1] ELSE RMax(s[1], RMaxSeq(Tail(s)))

RECURSIVE RMinSeq(_)
RMinSeq(s) == IF Len(s) = 1 THEN s[1] ELSE RMin(s[1], RMinSeq(Tail(s)))

ISqrt(n) == CHOOSE r \in 0..n : r * r <= n /\ n < (r + 1) * (r + 1)

\* jnp.sqrt of a non-negative number
Sqrt(x) == Rat(ISqrt((x[1] * SqrtRes * SqrtRes) \div x[2]), SqrtRes)

RECURSIVE Pow2(_)
Pow2(m) == IF m = 0 THEN 1 ELSE 2 * Pow2(m - 1)

\* jnp.exp
Exp(x) ==
    LET m == (2 * x[1]) \div x[2]
        frac == RSub(Rat(2 * x[1], x[2]), FromInt(m))
        p == IF m >= 0 THEN FromInt(Pow2(m)) ELSE Rat(1, Pow2(-m))
    IN  RMul(p, RAdd(One, frac))

----------------------------------------------------------------------------
\* a function on 1..n as the tuple of its values
Tup(f) == f \o <<>>

(* Dense two-dimensional arrays: [n |-> rows, d |-> columns, a |-> rows] *)

Arr(rows, d) == [n |-> Len(rows), d |-> d, a |-> rows]

\* lax.dynamic_slice(t, (start, 0), slice_sizes = (size, t.d)): the start index
\* is clamped so that the slice lies inside the operand.  A slice larger than
\* the operand is a shape error, reported by SliceFits.
SliceFits(t, size) == size <= t.n
SliceStart(t, start, size) == Max(0, Min(start, t.n - size))
DynamicSlice(t, start, size) ==
    LET s == SliceStart(t, start, size)
    IN  Arr(Tup([i \in 1..size |-> t.a[s + i]]), t.d)

\* jnp.arange(0, stop, step) for step >= 1
RECURSIVE Arange(_, _, _)
Arange(from, stop, step) ==
    IF from >= stop THEN <<>> ELSE <<from>> \o Arange(from + step, stop, step)

\* math.ceil(a / b) for a >= 0, b >= 1
CeilDiv(a, b) == (a + b - 1) \div b

\* einsum('qd, kd -> qk') on one row of each operand; an axis of size 1 is
\* broadcast against the other operand's axis.
EinsumOk(dq, dk) == dq = dk \/ dq = 1 \/ dk = 1
Dot(x, y) ==
    LET D == Max(Len(x), Len(y))
        xe(i) == IF Len(x) = 1 THEN x[1] ELSE x[i]
        ye(i) == IF Len(y) = 1 THEN y[1] ELSE y[i]
    IN  RSum(Tup([i \in 1..D |-> RMul(xe(i), ye(i))]))

----------------------------------------------------------------------------
(* Pipeline A: _query_chunk_attention *)

\* k_chunk_size = min(k_chunk_size, k_len)
ClampChunk(chunk_size, len) == Min(chunk_size, len)

MaxScoreAsMin(row) == RMinSeq(row)

\* jnp.max(attn_weights, axis = -1) on one row
MaxScore(row) == RMaxSeq(row)

\* q = q / jnp.sqrt(dim)
ScaleQ(qt, dim) ==
    Arr(Tup([i \in 1..qt.n |-> Tup([c \in 1..qt.d |-> RDiv(qt.a[i][c], Sqrt(FromInt(dim)))])]), qt.d)

\* einsum('vf, qv -> qf', v, w): w is one row per query, one column per key row
WeightedValues(vc, w, q_len) ==
    Tup([i \in 1..q_len |->
        Tup([f \in 1..vc.d |-> RSum(Tup([j \in 1..vc.n |-> RMul(vc.a[j][f], w[i][j])]))])])

summarize_chunk(qt, kc, vc) ==
    LET q_len == qt.n
        attn_weights == Tup([i \in 1..q_len |-> Tup([j \in 1..kc.n |-> Dot(qt.a[i], kc.a[j])])])
        max_score == Tup([i \in 1..q_len |-> MaxScore(attn_weights[i])])
        exp_weights == Tup([i \in 1..q_len |->
                          Tup([j \in 1..kc.n |-> Exp(RSub(attn_weights[i][j], max_score[i]))])])
        exp_values == WeightedValues(vc, exp_weights, q_len)
    IN  [attn_weights |-> attn_weights,
         exp_weights  |-> exp_weights,
         exp_values   |-> exp_values,
         weights      |-> Tup([i \in 1..q_len |-> RSum(exp_weights[i])]),
         max_score    |-> max_score]

\* chunk_scanner of the key-chunk reducer: the two slices and their summary.
\* k_start, v_start and size record which rows the slices read.
chunk_scanner(qt, kk, vv, idx, size) ==
    [k_start |-> SliceStart(kk, idx, size),
     v_start |-> SliceStart(vv, idx, size),
     size    |-> size,
     stats   |-> summarize_chunk(qt, DynamicSlice(kk, idx, size),
                                 DynamicSlice(vv, idx, size))]

\* jnp.max(chunk_max, axis = 0) for one query row
GlobalMax(maxes) == RMaxSeq(maxes)

query_chunk_attention(qt, kk, vv, k_chunk_size) ==
    LET q_len == qt.n
        k_len == kk.n
        dim == kk.d
        v_dim == vv.d
        size == ClampChunk(k_chunk_size, k_len)
        qs == ScaleQ(qt, dim)
        xs == Arange(0, k_len, size)
        chunks == Tup([c \in 1..Len(xs) |-> chunk_scanner(qs, kk, vv, xs[c], size)])
        N == Len(xs)
        global_max == Tup([i \in 1..q_len |->
                          GlobalMax(Tup([c \in 1..N |-> chunks[c].stats.max_score[i]]))])
        max_diffs == Tup([c \in 1..N |->
                        Tup([i \in 1..q_len |->
                            Exp(RSub(chunks[c].stats.max_score[i], global_max[i]))])])
        chunk_values == Tup([c \in 1..N |->
                           Tup([i \in 1..q_len |->
                               Tup([f \in 1..v_dim |->
                                   RMul(chunks[c].stats.exp_values[i][f], max_diffs[c][i])])])])
        chunk_weights == Tup([c \in 1..N |->
                            Tup([i \in 1..q_len |->
                                RMul(chunks[c].stats.weights[i], max_diffs[c][i])])])
        all_values == Tup([i \in 1..q_len |->
                         Tup([f \in 1..v_dim |-> RSum(Tup([c \in 1..N |-> chunk_values[c][i][f]]))])])
        all_weights == Tup([i \in 1..q_len |-> RSum(Tup([c \in 1..N |-> chunk_weights[c][i]]))])
    IN  [tiles  |-> chunks,
         fold   |-> [global_max    |-> global_max,
                     max_diffs     |-> max_diffs,
                     chunk_values  |-> chunk_values,
                     chunk_weights |-> chunk_weights,
                     all_weights   |-> all_weights],
         result |-> Tup([i \in 1..q_len |->
                        Tup([f \in 1..v_dim |-> RDiv(all_values[i][f], all_weights[i])])])]

----------------------------------------------------------------------------
(* Pipeline B: l2norm and _query_chunk_cosine_sim_attention *)

\* default of l2norm's eps, 1e-6, in units of 1e-6
L2NormEps == 1
\* default of rabe_cosine_sim_attention's eps, 1e-5, in units of 1e-6
CosineSimEps == 10
\* default of scale
Scale == 16

\* sum of the squares of every entry of the array
SumSq(t) ==
    RSum(Tup([i \in 1..t.n |-> RSum(Tup([c \in 1..t.d |-> RMul(t.a[i][c], t.a[i][c])]))]))

\* l2norm(t, eps): jnp.linalg.norm(t) without an axis is the norm of the whole
\* array
l2norm(t, eps) ==
    LET norm == Sqrt(SumSq(t))
    IN  Arr(Tup([i \in 1..t.n |->
                Tup([c \in 1..t.d |-> RDiv(t.a[i][c], RAdd(norm, FromInt(eps)))])]), t.d)

cosine_summarize_chunk(qt, kc, vc) ==
    LET q_len == qt.n
        attn_weights == Tup([i \in 1..q_len |->
                           Tup([j \in 1..kc.n |-> RMul(Dot(qt.a[i], kc.a[j]), FromInt(Scale))])])
        exp_weights == Tup([i \in 1..q_len |-> Tup([j \in 1..kc.n |-> Exp(attn_weights[i][j])])])
        exp_values == WeightedValues(vc, attn_weights, q_len)
    IN  [attn_weights |-> attn_weights,
         exp_weights  |-> exp_weights,
         exp_values   |-> exp_values,
         weights      |-> Tup([i \in 1..q_len |-> RSum(exp_weights[i])])]

cosine_chunk_scanner(qt, kk, vv, idx, size) ==
    [k_start |-> SliceStart(kk, idx, size),
     v_start |-> SliceStart(vv, idx, size),
     size    |-> size,
     stats   |-> cosine_summarize_chunk(qt, DynamicSlice(kk, idx, size),
                                        DynamicSlice(vv, idx, size))]

query_chunk_cosine_sim_attention(qt, kk, vv, k_chunk_size) ==
    LET q_len == qt.n
        k_len == kk.n
        v_dim == vv.d
        size == ClampChunk(k_chunk_size, k_len)
        xs == Arange(0, k_len, size)
        chunks == Tup([c \in 1..Len(xs) |->
                     cosine_chunk_scanner(qt, kk, vv, xs[c], size)])
        N == Len(xs)
        all_values == Tup([i \in 1..q_len |->
                         Tup([f \in 1..v_dim |->
                             RSum(Tup([c \in 1..N |-> chunks[c].stats.exp_values[i][f]]))])])
        all_weights == Tup([i \in 1..q_len |-> RSum(Tup([c \in 1..N |-> chunks[c].stats.weights[i]]))])
    IN  [tiles  |-> chunks,
         fold   |-> [all_weights |-> all_weights],
         result |-> Tup([i \in 1..q_len |->
                        Tup([f \in 1..v_dim |-> RDiv(all_values[i][f], all_weights[i])])])]

----------------------------------------------------------------------------
(* The entry points rabe_attention and rabe_cosine_sim_attention *)

Fns == {"rabe_attention", "rabe_cosine_sim_attention"}

\* q, k = map(l2norm, (q, k)) in pipeline B; pipeline A leaves them alone
Preprocess(fn, t) == IF fn = "rabe_cosine_sim_attention" THEN l2norm(t, L2NormEps) ELSE t

Reducer(fn, qt, kk, vv, k_chunk_size) ==
    IF fn = "rabe_cosine_sim_attention"
    THEN query_chunk_cosine_sim_attention(qt, kk, vv, k_chunk_size)
    ELSE query_chunk_attention(qt, kk, vv, k_chunk_size)

TileRowsWholeQ(q_chunk_size, q_len) == q_len

\* min(q_chunk_size, q_len): the rows of every query tile
TileRows(q_chunk_size, q_len) == Min(q_chunk_size, q_len)

\* length of the scan
ScanLength(q_len, q_chunk_size) == CeilDiv(q_len, q_chunk_size)

\* The scan traces its body once, on the shapes alone and before the first
\* iteration runs.  The trace fails where a primitive rejects the shapes:
\* jnp.arange with a zero step (k_len = 0), a slice of v larger than v, and an
\* einsum whose contracted axes differ without either being 1.
BodyTraces(qq, kk, vv, k_chunk_size) ==
    /\ ClampChunk(k_chunk_size, kk.n) >= 1
    /\ SliceFits(vv, ClampChunk(k_chunk_size, kk.n))
    /\ EinsumOk(qq.d, kk.d)

\* chunk_scanner of the query-chunk driver: one iteration of the scan
scan_body(fn, qq, kk, vv, idx, q_chunk_size, k_chunk_size) ==
    LET q_chunk == DynamicSlice(qq, idx, TileRows(q_chunk_size, qq.n))
    IN  [carry   |-> idx + q_chunk_size,
         q_start |-> SliceStart(qq, idx, TileRows(q_chunk_size, qq.n)),
         q_rows  |-> q_chunk.n,
         y       |-> Reducer(fn, q_chunk, kk, vv, k_chunk_size)]

\* res.reshape(q_len, v_dim) of the stacked tile results: defined when the
\* element counts agree, then the rows in order
ReshapeFits(r, tile_rows, q_len) == Len(r) * tile_rows = q_len
RECURSIVE Concat(_)
Concat(r) == IF r = <<>> THEN <<>> ELSE r[1] \o Concat(Tail(r))

\* The whole call as a function of its arguments
RECURSIVE ScanAll(_, _, _, _, _, _, _, _)
ScanAll(fn, qq, kk, vv, idx, n, q_chunk_size, k_chunk_size) ==
    IF n = 0 THEN <<>>
    ELSE LET b == scan_body(fn, qq, kk, vv, idx, q_chunk_size, k_chunk_size)
         IN  <<b.y.result>> \o
             ScanAll(fn, qq, kk, vv, b.carry, n - 1, q_chunk_size, k_chunk_size)

Run(fn, q0, k0, v0, q_chunk_size, k_chunk_size) ==
    LET qq == Preprocess(fn, q0)
        kk == Preprocess(fn, k0)
        r == ScanAll(fn, qq, kk, v0, 0, ScanLength(qq.n, q_chunk_size),
                     q_chunk_size, k_chunk_size)
    IN  IF ~BodyTraces(qq, kk, v0, k_chunk_size) THEN [status |-> "error"]
        ELSE IF ~ReshapeFits(r, TileRows(q_chunk_size, qq.n), qq.n) THEN [status |-> "error"]
        ELSE [status |-> "done", out |-> Arr(Concat(r), v0.d)]

----------------------------------------------------------------------------
(* Inputs *)

\* entries of Q and K
Vals == {0, 1}
\* head_dim of the well-shaped inputs
Dims == {1, 4}
\* (columns of Q, columns of K) of the inputs whose shapes may disagree
DimPairs == {<<2, 2>>, <<1, 2>>, <<2, 1>>, <<2, 3>>}

\* rows of Q and K: every entry of a row is the same value
Rows(d) == {[c \in 1..d |-> FromInt(x)] : x \in Vals}
Arrays(n, d) == {Arr(a, d) : a \in [1..n -> Rows(d)]}
Ones(n, d) == Arr([i \in 1..n |-> [c \in 1..d |-> One]], d)
\* V has one column and pairwise distinct rows: row j holds j
Values(n) == Arr([j \in 1..n |-> <<FromInt(j)>>], 1)

NoArr == Arr(<<>>, 0)
NoFold == [all_weights |-> <<>>]
NoTile == [start |-> 0, rows |-> 0]

Start(a) ==
    /\ args = a
    /\ pc = "call"
    /\ q = a.q
    /\ k = a.k
    /\ chunk_idx = 0
    /\ res = <<>>
    /\ tiles = <<>>
    /\ fold = NoFold
    /\ q_tile = NoTile
    /\ out = NoArr

\* well-shaped, non-empty inputs with varying entries
InitValid ==
    \E fn \in Fns, dim \in Dims, q_len \in 1..MaxQLen, k_len \in 1..MaxKLen,
       qcs \in 1..MaxChunk, kcs \in 1..MaxChunk :
        \E q0 \in Arrays(q_len, dim), k0 \in Arrays(k_len, dim) :
            Start([fn |-> fn, q |-> q0, k |-> k0, v |-> Values(k_len),
                   q_chunk_size |-> qcs, k_chunk_size |-> kcs])

\* every combination of shapes, empty and mismatched ones included
InitShapes ==
    \E fn \in Fns, dims \in DimPairs, q_len \in 0..MaxShapeLen, k_len \in 0..MaxShapeLen,
       v_len \in 0..MaxShapeLen, qcs \in 1..MaxChunk, kcs \in 1..MaxChunk :
        Start([fn |-> fn, q |-> Ones(q_len, dims[1]), k |-> Ones(k_len, dims[2]),
               v |-> Values(v_len), q_chunk_size |-> qcs, k_chunk_size |-> kcs])

Init == InitValid \/ InitShapes

----------------------------------------------------------------------------
(* The call, step by step *)

\* entry: unpack the shapes, pre-process, and trace the scan body
Call ==
    /\ pc = "call"
    /\ q' = Preprocess(args.fn, args.q)
    /\ k' = Preprocess(args.fn, args.k)
    /\ pc' = IF ~BodyTraces(q', k', args.v, args.k_chunk_size) THEN "error"
             ELSE IF ScanLength(args.q.n, args.q_chunk_size) = 0 THEN "reshape"
             ELSE "scan"
    /\ UNCHANGED <<args, chunk_idx, res, tiles, fold, q_tile, out>>

\* one iteration of jax.lax.scan over the query tiles
ScanStep ==
    /\ pc = "scan"
    /\ Len(res) < ScanLength(q.n, args.q_chunk_size)
    /\ \E b \in {scan_body(args.fn, q, k, args.v, chunk_idx,
                          args.q_chunk_size, args.k_chunk_size)} :
           /\ chunk_idx' = b.carry
           /\ res' = Append(res, b.y.result)
           /\ tiles' = b.y.tiles
           /\ fold' = b.y.fold
           /\ q_tile' = [start |-> b.q_start, rows |-> b.q_rows]
    /\ pc' = IF Len(res') = ScanLength(q.n, args.q_chunk_size) THEN "reshape" ELSE "scan"
    /\ UNCHANGED <<args, q, k, out>>

\* return res.reshape(q_len, v_dim)
Reshape ==
    /\ pc = "reshape"
    /\ IF ReshapeFits(res, TileRows(args.q_chunk_size, q.n), q.n)
       THEN /\ out' = Arr(Concat(res), args.v.d)
            /\ pc' = "done"
       ELSE /\ out' = out
            /\ pc' = "error"
    /\ UNCHANGED <<args, q, k, chunk_idx, res, tiles, fold, q_tile>>

Next == Call \/ ScanStep \/ Reshape

Spec == Init /\ [][Next]_vars

----------------------------------------------------------------------------
(* Reference definitions the claims compare the code with *)

Returned == pc = "done"
Ended == pc \in {"done", "error"}

\* Q, K, V as the interface describes them, non-empty
WellShaped ==
    /\ args.q.n >= 1
    /\ args.k.n >= 1
    /\ args.q.d = args.k.d
    /\ args.v.n = args.k.n

\* softmax(Q K^T / sqrt(head_dim)) V on the full score matrix
Naive(q0, k0, v0) ==
    LET s == Tup([i \in 1..q0.n |->
                Tup([j \in 1..k0.n |->
                    RDiv(Dot(q0.a[i], k0.a[j]), Sqrt(FromInt(q0.d)))])])
        w == Tup([i \in 1..q0.n |-> Tup([j \in 1..k0.n |-> Exp(s[i][j])])])
    IN  Arr(Tup([i \in 1..q0.n |->
                Tup([f \in 1..v0.d |->
                    RDiv(RSum(Tup([j \in 1..k0.n |-> RMul(w[i][j], v0.a[j][f])])),
                         RSum(w[i]))])]), v0.d)

\* every row divided by its own norm plus eps
RowL2Norm(t, eps) ==
    Arr(Tup([i \in 1..t.n |->
            LET norm == Sqrt(RSum(Tup([c \in 1..t.d |-> RMul(t.a[i][c], t.a[i][c])])))
            IN  Tup([c \in 1..t.d |-> RDiv(t.a[i][c], RAdd(norm, FromInt(eps)))])]), t.d)

\* t with row j replaced by r
WithRow(t, j, r) == Arr(Tup([i \in 1..t.n |-> IF i = j THEN r ELSE t.a[i]]), t.d)

\* the key tiles of the last query tile that read key row r (0-based)
TilesReading(r) ==
    {c \in DOMAIN tiles : tiles[c].k_start <= r /\ r < tiles[c].k_start + tiles[c].size}

----------------------------------------------------------------------------
(* Claims *)

\* C1: for well-shaped Q, K, V and any chunk sizes, rabe_attention returns the
\* naive full-matrix result softmax(Q K^T / sqrt(head_dim)) V.
C1_EqualsNaive ==
    (args.fn = "rabe_attention" /\ WellShaped /\ Ended)
        => (Returned /\ out = Naive(args.q, args.k, args.v))

\* C2: chunk-size invariance: whatever the call returned, the same call with any
\* other pair of chunk sizes returns the same array.
C2_ChunkSizeInvariant ==
    (WellShaped /\ Returned) =>
        \A qcs \in 1..MaxChunk, kcs \in 1..MaxChunk :
            LET r == Run(args.fn, args.q, args.k, args.v, qcs, kcs)
            IN  r.status = "done" => r.out = out

\* C3: when q_len is not a multiple of q_chunk_size the call still returns, with
\* q_len rows of v_dim columns, row i being the attention result of Q row i.
C3_NonMultipleQueryLength ==
    (WellShaped /\ Ended /\ args.q.n % args.q_chunk_size # 0) =>
        /\ Returned
        /\ out.n = args.q.n
        /\ out.d = args.v.d
        /\ \A i \in 1..args.q.n :
              out.a[i] = Reducer(args.fn, Arr(<<q.a[i]>>, q.d), k, args.v,
                                 args.k_chunk_size).result[1]

\* C4: the key/value tiles stay inside [0, k_len), key and value tile share
\* offset and length, and every key row is read by exactly one tile.
C4_KeyTilesPartition ==
    (WellShaped /\ tiles # <<>>) =>
        /\ \A c \in DOMAIN tiles :
              /\ 0 <= tiles[c].k_start
              /\ tiles[c].k_start + tiles[c].size <= args.k.n
              /\ tiles[c].v_start = tiles[c].k_start
        /\ \A r \in 0..(args.k.n - 1) : Cardinality(TilesReading(r)) = 1

\* C5: row alignment: replacing Q row j leaves every output row i # j unchanged,
\* for both entry points.
C5_RowAlignment ==
    (WellShaped /\ Returned) =>
        \A j \in 1..args.q.n : \A r \in Rows(args.q.d) :
            LET p == Run(args.fn, WithRow(args.q, j, r), args.k, args.v,
                         args.q_chunk_size, args.k_chunk_size)
            IN  /\ p.status = "done"
                /\ \A i \in 1..args.q.n : i # j => p.out.a[i] = out.a[i]

\* C6: rabe_cosine_sim_attention replaces every row of Q and of K by the row
\* divided by (its own norm + eps), eps being the small constant.  The claim
\* names the eps argument (CosineSimEps); the formula also admits l2norm's own
\* default, so that it fails only where the norm is not the row's own.
C6_RowwiseL2Norm ==
    (args.fn = "rabe_cosine_sim_attention" /\ pc # "call") =>
        \E eps \in {CosineSimEps, L2NormEps} :
            /\ q = RowL2Norm(args.q, eps)
            /\ k = RowL2Norm(args.k, eps)

\* C7: with (non-empty) K and V of different row counts, or Q and K of different
\* head_dim, no tile result is ever produced and no array is returned.
C7_ShapeMismatchRejected ==
    (/\ args.q.n >= 1 /\ args.k.n >= 1 /\ args.v.n >= 1
     /\ args.k.n # args.v.n \/ args.q.d # args.k.d) => (res = <<>> /\ ~Returned)

\* C8: a call with q_len = 0 or k_len = 0 (shapes otherwise agreeing) never
\* returns an array.
C8_ZeroLengthRejected ==
    (/\ args.q.n = 0 \/ args.k.n = 0
     /\ args.q.d = args.k.d
     /\ args.v.n = args.k.n) => ~Returned

\* C9: every materialized score matrix (attn_weights, exp_weights) has at most
\* min(q_chunk_size, q_len) rows and min(k_chunk_size, k_len) columns, and is a
\* full q_len x k_len matrix only if both chunk sizes reach the lengths.
C9_ScoreMatrixBounded ==
    \A c \in DOMAIN tiles :
        \A m \in {tiles[c].stats.attn_weights, tiles[c].stats.exp_weights} :
            /\ Len(m) <= Min(args.q_chunk_size, args.q.n)
            /\ \A i \in DOMAIN m : Len(m[i]) <= Min(args.k_chunk_size, args.k.n)
            /\ (Len(m) = args.q.n /\ \A i \in DOMAIN m : Len(m[i]) = args.k.n)
                   => (args.q_chunk_size >= args.q.n /\ args.k_chunk_size >= args.k.n)

C9_Witness ==
    /\ Returned
    /\ Len(res) >= 2
    /\ Len(tiles) >= 2
    /\ args.q_chunk_size < args.q.n
    /\ args.k_chunk_size < args.k.n
    /\ \A c \in DOMAIN tiles :
          /\ Len(tiles[c].stats.attn_weights) = args.q_chunk_size
          /\ Len(tiles[c].stats.attn_weights[1]) = args.k_chunk_size

\* C10: in pipeline A every score is at most its tile maximum and every tile
\* maximum at most the global maximum; some tile of each row has correction 1;
\* the correction multiplies the tile's value sum and weight sum alike; and the
\* divisor of each row is at least 1.
C10_RescalingStable ==
    (args.fn = "rabe_attention" /\ tiles # <<>>) =>
        \A i \in 1..q_tile.rows :
            /\ \A c \in DOMAIN tiles :
                  LET st == tiles[c].stats
                  IN  /\ \A j \in DOMAIN st.attn_weights[i] :
                            RLe(RSub(st.attn_weights[i][j], st.max_score[i]), Zero)
                      /\ RLe(RSub(st.max_score[i], fold.global_max[i]), Zero)
                      /\ fold.max_diffs[c][i] = Exp(RSub(st.max_score[i], fold.global_max[i]))
                      /\ fold.chunk_weights[c][i] = RMul(st.weights[i], fold.max_diffs[c][i])
                      /\ \A f \in 1..args.v.d :
                            fold.chunk_values[c][i][f] =
                                RMul(st.exp_values[i][f], fold.max_diffs[c][i])
            /\ \E c \in DOMAIN tiles : fold.max_diffs[c][i] = One
            /\ RLe(One, fold.all_weights[i])

C10_Witness ==
    /\ args.fn = "rabe_attention"
    /\ Returned
    /\ Len(tiles) >= 2
    /\ \E c \in DOMAIN tiles : \E i \in 1..q_tile.rows :
          /\ fold.max_diffs[c][i] # One
          /\ RLe(One, fold.all_weights[i])

====
